---- MODULE Spec2Model ----
(***************************************************************************)
(* Model of plot_speedup.py: a linear script that loads two CSV files,     *)
(* prints a text report, draws a 2x2 figure, saves it and prints more      *)
(* statistics.  One step of the model is one statement of the script.      *)
(*                                                                         *)
(* Floats are fixed-point integers in units of 1/10000 (1.0 is 10000).     *)
(* A value is a record [k, v]: k = "num" (v is the number), "nan" (a float *)
(* NaN), "err" (evaluating the expression raised an exception) or "unset"  *)
(* (a name not assigned yet).                                              *)
(***************************************************************************)
EXTENDS Integers, Sequences, FiniteSets, TLC

VARIABLES
    fs,            \* the files the script finds and the backend's behaviour
    pc,            \* source line of the next statement to execute
    status,        \* "running", "done" (fell off the end) or "failed" (traceback)
    speedup_data,  \* the table read at line 12
    stats_data,    \* the table read at line 13
    stats_dict,    \* the mapping built at line 16
    loaded,        \* the seven module-level values of lines 17-23
    stdout,        \* the lines printed so far
    figure,        \* what has been drawn so far
    stats_text,    \* the annotation text built at lines 78-90
    correlation,   \* the coefficient computed at line 107
    image,         \* speedup_analysis.png
    trace          \* history: the operations completed so far, in order

vars == <<fs, pc, status, speedup_data, stats_data, stats_dict, loaded,
          stdout, figure, stats_text, correlation, image, trace>>

----------------------------------------------------------------------------
(* Bounds and inputs *)

\* longest enumerated Run Record sequence (the end-to-end scenario is added)
MaxN == 3

\* thresholds of lines 108, 122 and 123, in fixed point
ThresholdNoSpeedup == 10000
ThresholdHigh == 15000

Num(n) == [k |-> "num", v |-> n]
NaN == [k |-> "nan", v |-> 0]
Err == [k |-> "err", v |-> 0]
Unset == [k |-> "unset", v |-> 0]

MetricNames == {"avg_speedup", "min_speedup", "max_speedup",
                "avg_error", "min_error", "max_error", "num_runs"}

MetricOrder == <<"avg_speedup", "min_speedup", "max_speedup",
                 "avg_error", "min_error", "max_error", "num_runs">>

ResultColumns == {"run", "speedup", "relative_error"}
StatsColumns == {"metric", "value"}

----------------------------------------------------------------------------
(* Arithmetic helpers *)

Abs(x) == IF x < 0 THEN -x ELSE x

\* n / d rounded to the nearest integer, ties to even (printf rounding)
RoundHalfEven(n, d) ==
    LET a == Abs(n)
        q == a \div d
        r == a % d
        m == IF 2 * r > d THEN q + 1
             ELSE IF 2 * r < d THEN q
             ELSE IF q % 2 = 0 THEN q ELSE q + 1
    IN IF n < 0 THEN -m ELSE m

RECURSIVE Pow10(_)
Pow10(e) == IF e = 0 THEN 1 ELSE 10 * Pow10(e - 1)

RECURSIVE SqrtSearch(_, _, _)
SqrtSearch(n, lo, hi) ==
    IF lo >= hi THEN lo
    ELSE LET mid == (lo + hi + 1) \div 2
         IN IF mid * mid <= n THEN SqrtSearch(n, mid, hi)
            ELSE SqrtSearch(n, lo, mid - 1)

\* floor of the square root of n >= 0
ISqrt(n) == SqrtSearch(n, 0, 46340)

RECURSIVE SumSeq(_)
SumSeq(xs) == IF xs = <<>> THEN 0 ELSE Head(xs) + SumSeq(Tail(xs))

RECURSIVE Insert(_, _)
Insert(x, sorted) ==
    IF sorted = <<>> THEN <<x>>
    ELSE IF x <= Head(sorted) THEN <<x>> \o sorted
    ELSE <<Head(sorted)>> \o Insert(x, Tail(sorted))

RECURSIVE Sort(_)
Sort(xs) == IF xs = <<>> THEN <<>> ELSE Insert(Head(xs), Sort(Tail(xs)))

MinOf(xs) == CHOOSE m \in {xs[i] : i \in DOMAIN xs} :
                 \A i \in DOMAIN xs : m <= xs[i]

----------------------------------------------------------------------------
(* pandas: tables, columns and the Series reductions the script calls *)

NoTable == [cols |-> {}, rows |-> <<>>]

\* df[name]: the column as a sequence, or KeyError
Column(df, name) ==
    IF name \in df.cols
    THEN [ok |-> TRUE, xs |-> [i \in DOMAIN df.rows |-> df.rows[i][name]]]
    ELSE [ok |-> FALSE, xs |-> <<>>]

\* deviations from the (truncated) mean; the truncation is below resolution
Centered(xs) ==
    LET lo == MinOf(xs)
        d == [i \in DOMAIN xs |-> xs[i] - lo]
        m == SumSeq(d) \div Len(xs)
    IN [i \in DOMAIN xs |-> d[i] - m]

SumSq(es) == SumSeq([i \in DOMAIN es |-> es[i] * es[i]])

\* a variant of SeriesStd that divides by N - 1 without guarding N = 1
SeriesStdDividing(xs) ==
    IF Len(xs) < 2 THEN Err
    ELSE Num(ISqrt(SumSq(Centered(xs)) \div (Len(xs) - 1)))

\* Series.std(): sample standard deviation (ddof = 1); NaN below two values
SeriesStd(xs) ==
    IF Len(xs) < 2 THEN NaN
    ELSE Num(ISqrt(SumSq(Centered(xs)) \div (Len(xs) - 1)))

\* Series.median(): middle of the sorted values, mean of the two middles
SeriesMedian(xs) ==
    LET n == Len(xs)
        s == Sort(xs)
    IN IF n = 0 THEN NaN
       ELSE IF n % 2 = 1 THEN Num(s[(n + 1) \div 2])
       ELSE Num((s[n \div 2] + s[n \div 2 + 1]) \div 2)

\* Series.quantile(q4 / 4) with linear interpolation
SeriesQuantile(xs, q4) ==
    LET n == Len(xs)
        s == Sort(xs)
        pos4 == (n - 1) * q4
        lo == pos4 \div 4
        r == pos4 % 4
    IN IF n = 0 THEN NaN
       ELSE IF r = 0 THEN Num(s[lo + 1])
       ELSE Num(s[lo + 1] + ((s[lo + 2] - s[lo + 1]) * r) \div 4)

\* a variant of Exceeds that also counts a value equal to the threshold
ExceedsOrEqual(x, t) == x >= t

\* one element of (series > t)
Exceeds(x, t) == x > t

\* (series > t).sum()
CountAbove(xs, t) == Cardinality({i \in DOMAIN xs : Exceeds(xs[i], t)})

\* a variant of PercentAbove that truncates instead of rounding
PercentAboveTruncated(xs, t) ==
    IF Len(xs) = 0 THEN NaN
    ELSE Num((1000 * CountAbove(xs, t)) \div Len(xs))

\* (series > t).mean() * 100 formatted with .1f: in tenths of a percent
PercentAbove(xs, t) ==
    IF Len(xs) = 0 THEN NaN
    ELSE Num(RoundHalfEven(1000 * CountAbove(xs, t), Len(xs)))

\* Series.corr(): Pearson r in fixed point, to three decimals
SeriesCorr(xs, ys) ==
    IF Len(xs) < 2 THEN NaN
    ELSE LET ex == Centered(xs)
             ey == Centered(ys)
             c == SumSeq([i \in DOMAIN ex |-> ex[i] * ey[i]])
             den == ISqrt(SumSq(ex)) * ISqrt(SumSq(ey))
             r == IF den >= 100000 THEN RoundHalfEven(c, den \div 1000)
                  ELSE RoundHalfEven(c * 1000, den)
         IN IF den = 0 THEN NaN
            ELSE Num(10 * (IF r > 1000 THEN 1000 ELSE IF r < -1000 THEN -1000 ELSE r))

\* a reduction of a column: KeyError propagates
OnColumn(c, result) == IF c.ok THEN result ELSE Err

----------------------------------------------------------------------------
(* Python: conversions and formatting *)

\* a variant of PyInt given the cell's text: int("5.0") is a ValueError
PyIntOfText(x) == Err

\* int(x): truncation toward zero; ValueError on NaN
PyInt(x) ==
    IF x.k = "err" THEN Err
    ELSE IF x.k = "nan" THEN Err
    ELSE Num(IF x.v >= 0 THEN x.v \div 10000 ELSE -((-x.v) \div 10000))

\* x * 100 on a float
Times100(x) == IF x.k = "num" THEN Num(x.v * 100) ELSE x

\* f"{x:.<decimals>f}": the number in units of 10^-decimals; "nan" for NaN
FormatFixed(x, decimals) ==
    IF x.k # "num" THEN x
    ELSE IF decimals >= 4 THEN Num(x.v * Pow10(decimals - 4))
    ELSE Num(RoundHalfEven(x.v, Pow10(4 - decimals)))

\* f"{x:g}": six significant digits
FormatG(x) ==
    IF x.k # "num" THEN x
    ELSE IF Abs(x.v) < 1000000 THEN Num(x.v)
    ELSE Num(RoundHalfEven(x.v, 10) * 10)

\* f"{n}" of an int
FormatInt(x) == x

\* an f-string raises when one of its expressions raises
Raises(fields) == \E i \in DOMAIN fields : fields[i].val.k \in {"err", "unset"}

----------------------------------------------------------------------------
(* The inputs: what the two CSV files hold and how the backend behaves *)

\* (speedup, relative_error) samples the enumerated sequences are built from
SamplePool == { <<9000, 100>>, <<10000, 200>>, <<15000, 300>>, <<20000, 500>> }

\* the end-to-end scenario: speedup 0.9 1.0 1.1 1.2 2.0, error .01 .02 .01 .03 .05
ScenarioSamples == << <<9000, 100>>, <<10000, 200>>, <<11000, 100>>,
                      <<12000, 300>>, <<20000, 500>> >>

SampleSeqs == UNION { [1..n -> SamplePool] : n \in 1..MaxN } \cup {ScenarioSamples}

\* the rows of speedup_results.csv: run is the trial number
RunRecords(samples) ==
    [i \in DOMAIN samples |->
        [run |-> i, speedup |-> samples[i][1], relative_error |-> samples[i][2]]]

\* values of num_runs tried in speedup_stats.csv: 0, 2 and 5
NumRunsValues == {0, 20000, 50000}

StatValue(m, nr) ==
    CASE m = "avg_speedup" -> Num(12400)
      [] m = "min_speedup" -> Num(9000)
      [] m = "max_speedup" -> Num(20000)
      [] m = "avg_error"   -> Num(240)
      [] m = "min_error"   -> Num(100)
      [] m = "max_error"   -> Num(500)
      [] m = "num_runs"    -> nr

\* the rows of speedup_stats.csv for the metrics kept, in file order
StatsRows(keep, nr) ==
    LET F[i \in 0..Len(MetricOrder)] ==
            IF i = 0 THEN <<>>
            ELSE IF MetricOrder[i] \in keep
                 THEN Append(F[i - 1], [metric |-> MetricOrder[i],
                                        value |-> StatValue(MetricOrder[i], nr)])
                 ELSE F[i - 1]
    IN F[Len(MetricOrder)]

\* the statements that call into the plotting backend
BackendLines == {36, 40, 50, 60, 69, 92, 96, 108, 112, 113}

Anomaly(tag, name, line) == [tag |-> tag, name |-> name, line |-> line]

Anomalies ==
    {Anomaly(t, "", 0) : t \in {"none", "no_results_file", "no_stats_file",
                                "nan_num_runs", "speedup_metrics_only"}}
    \cup {Anomaly("no_column", c, 0) : c \in ResultColumns \cup StatsColumns}
    \cup {Anomaly("no_metric", m, 0) : m \in MetricNames}
    \cup {Anomaly("backend", "", l) : l \in BackendLines}

KeptMetrics(a) ==
    IF a.tag = "speedup_metrics_only"
    THEN {"avg_speedup", "min_speedup", "max_speedup", "num_runs"}
    ELSE IF a.tag = "no_metric" THEN MetricNames \ {a.name}
    ELSE MetricNames

Environment(samples, nr, a) ==
    [ results |-> [ exists |-> a.tag # "no_results_file",
                    cols |-> ResultColumns \ {a.name},
                    rows |-> RunRecords(samples) ],
      stats   |-> [ exists |-> a.tag # "no_stats_file",
                    cols |-> StatsColumns \ {a.name},
                    rows |-> StatsRows(KeptMetrics(a),
                                       IF a.tag = "nan_num_runs" THEN NaN ELSE Num(nr)) ],
      backend_fail |-> a.line ]

\* nothing is wrong with the files or the backend
Healthy(env) ==
    /\ env.results.exists /\ env.results.cols = ResultColumns
    /\ env.stats.exists /\ env.stats.cols = StatsColumns
    /\ {env.stats.rows[i].metric : i \in DOMAIN env.stats.rows} = MetricNames
    /\ \A i \in DOMAIN env.stats.rows : env.stats.rows[i].value.k = "num"
    /\ env.backend_fail = 0

----------------------------------------------------------------------------
(* The script, statement by statement *)

Program == <<12, 13, 16, 17, 18, 19, 20, 21, 22, 23,
             25, 26, 27, 28, 29, 30, 31, 32, 33,
             36, 40, 50, 60, 69, 78, 92, 96, 107, 108, 112, 113,
             114, 118, 119, 120, 121, 122, 123, 124, 125, 126, 127>>

EndOfScript == Program[Len(Program)] + 1

IndexOf(l) == CHOOSE i \in DOMAIN Program : Program[i] = l

\* a variant of Succ in which the image is saved before the scatter panel
SuccSaveEarly(l) ==
    IF l = 92 THEN 112
    ELSE IF l = 113 THEN 96
    ELSE IF l = 108 THEN 114
    ELSE IF IndexOf(l) = Len(Program) THEN EndOfScript
    ELSE Program[IndexOf(l) + 1]

\* a variant of Succ in which the whole report is printed before plotting
SuccReportFirst(l) ==
    IF l = 33 THEN 118
    ELSE IF l = 127 THEN 36
    ELSE IF l = 114 THEN EndOfScript
    ELSE IF IndexOf(l) = Len(Program) THEN EndOfScript
    ELSE Program[IndexOf(l) + 1]

\* a variant of Succ in which the loaded error values precede the first std
SuccLoadedFirst(l) ==
    IF l = 28 THEN 30
    ELSE IF l = 32 THEN 29
    ELSE IF l = 29 THEN 33
    ELSE IF IndexOf(l) = Len(Program) THEN EndOfScript
    ELSE Program[IndexOf(l) + 1]

\* a variant of Succ in which "Plot saved" is printed before savefig runs
SuccAnnounceFirst(l) ==
    IF l = 112 THEN 114
    ELSE IF l = 114 THEN 113
    ELSE IF l = 113 THEN 118
    ELSE IF IndexOf(l) = Len(Program) THEN EndOfScript
    ELSE Program[IndexOf(l) + 1]

\* the statement that follows statement l: the script has no branch or loop
Succ(l) ==
    IF IndexOf(l) = Len(Program) THEN EndOfScript
    ELSE Program[IndexOf(l) + 1]

----------------------------------------------------------------------------
(* What each statement evaluates *)

Field(name, origin, val) == [name |-> name, origin |-> origin, val |-> val]

Speedup == Column(speedup_data, "speedup")
RelError == Column(speedup_data, "relative_error")

LoadedField(m, val) == Field(m, "loaded", val)
Derived(name, c, val) == Field(name, "derived", OnColumn(c, val))

\* the expressions of the f-string printed at line l, formatted
PrintFields(l) ==
    CASE l = 25 -> <<LoadedField("num_runs", FormatInt(loaded["num_runs"]))>>
      [] l = 26 -> <<LoadedField("avg_speedup", FormatFixed(loaded["avg_speedup"], 4))>>
      [] l = 27 -> <<LoadedField("min_speedup", FormatFixed(loaded["min_speedup"], 4))>>
      [] l = 28 -> <<LoadedField("max_speedup", FormatFixed(loaded["max_speedup"], 4))>>
      [] l = 29 -> <<Derived("std_speedup", Speedup,
                             FormatFixed(SeriesStd(Speedup.xs), 4))>>
      [] l = 30 -> <<LoadedField("avg_error", FormatG(loaded["avg_error"]))>>
      [] l = 31 -> <<LoadedField("min_error", FormatG(loaded["min_error"]))>>
      [] l = 32 -> <<LoadedField("max_error", FormatG(loaded["max_error"]))>>
      [] l = 33 -> <<Derived("std_error", RelError, FormatG(SeriesStd(RelError.xs)))>>
      [] l = 119 -> <<Derived("median_speedup", Speedup,
                              FormatFixed(SeriesMedian(Speedup.xs), 4))>>
      [] l = 120 -> <<Derived("p25_speedup", Speedup,
                              FormatFixed(SeriesQuantile(Speedup.xs, 1), 4))>>
      [] l = 121 -> <<Derived("p75_speedup", Speedup,
                              FormatFixed(SeriesQuantile(Speedup.xs, 3), 4))>>
      [] l = 122 -> <<Derived("count_above", Speedup,
                              FormatInt(Num(CountAbove(Speedup.xs, ThresholdNoSpeedup)))),
                      LoadedField("num_runs", FormatInt(loaded["num_runs"])),
                      Derived("percent_above", Speedup,
                              PercentAbove(Speedup.xs, ThresholdNoSpeedup))>>
      [] l = 123 -> <<Derived("count_above", Speedup,
                              FormatInt(Num(CountAbove(Speedup.xs, ThresholdHigh)))),
                      LoadedField("num_runs", FormatInt(loaded["num_runs"])),
                      Derived("percent_above", Speedup,
                              PercentAbove(Speedup.xs, ThresholdHigh))>>
      [] l = 125 -> <<Derived("median_error", RelError,
                              FormatFixed(Times100(SeriesMedian(RelError.xs)), 6))>>
      [] l = 126 -> <<Derived("p25_error", RelError,
                              FormatFixed(Times100(SeriesQuantile(RelError.xs, 1)), 6))>>
      [] l = 127 -> <<Derived("p75_error", RelError,
                              FormatFixed(Times100(SeriesQuantile(RelError.xs, 3)), 6))>>
      [] OTHER -> <<>>

\* the f-string of lines 78-90
StatsTextFields ==
    << LoadedField("avg_speedup", FormatFixed(loaded["avg_speedup"], 3)),
       Derived("median_speedup", Speedup, FormatFixed(SeriesMedian(Speedup.xs), 3)),
       Derived("std_speedup", Speedup, FormatFixed(SeriesStd(Speedup.xs), 3)),
       LoadedField("min_speedup", FormatFixed(loaded["min_speedup"], 3)),
       LoadedField("max_speedup", FormatFixed(loaded["max_speedup"], 3)),
       LoadedField("avg_error", FormatFixed(Times100(loaded["avg_error"]), 4)),
       Derived("median_error", RelError,
               FormatFixed(Times100(SeriesMedian(RelError.xs)), 4)),
       Derived("std_error", RelError,
               FormatFixed(Times100(SeriesStd(RelError.xs)), 4)),
       LoadedField("min_error", FormatFixed(Times100(loaded["min_error"]), 4)),
       LoadedField("max_error", FormatFixed(Times100(loaded["max_error"]), 4)) >>

\* the f-string of line 108
ScatterTextFields ==
    << Field("correlation", "derived", FormatFixed(correlation, 3)),
       Derived("count_above", Speedup,
               FormatInt(Num(CountAbove(Speedup.xs, ThresholdNoSpeedup)))),
       LoadedField("num_runs", FormatInt(loaded["num_runs"])) >>

PrintLines == {25, 26, 27, 28, 29, 30, 31, 32, 33,
               114, 118, 119, 120, 121, 122, 123, 124, 125, 126, 127}

\* the statements that evaluate a statistic of the Run Record sequence
ComputeLines == {29, 33, 78, 107, 108, 119, 120, 121, 122, 123, 125, 126, 127}

\* the columns of speedup_data the plotting statement at line l reads
ColumnsDrawn(l) ==
    CASE l = 40 -> {"run", "speedup"}
      [] l \in {50, 60, 69} -> {"speedup"}
      [] l = 96 -> {"speedup", "relative_error"}
      [] OTHER -> {}

PanelOf(l) ==
    CASE l = 40 -> "time_series"
      [] l = 50 -> "histogram"
      [] l \in {60, 69} -> "box_plot"
      [] l = 96 -> "scatter"

\* the plotting call at line l raises (backend failure, unwritable path)
BackendRaises(env, l) == env.backend_fail = l

Event(op, l) == [op |-> op, line |-> l]

\* the events statement l adds to the history when it completes
Events(op, l) ==
    IF l \in ComputeLines /\ op # "compute"
    THEN <<Event("compute", l), Event(op, l)>>
    ELSE <<Event(op, l)>>

----------------------------------------------------------------------------
(* Initial state and steps *)

Init ==
    /\ \E samples \in SampleSeqs, a \in Anomalies, nr \in NumRunsValues :
          /\ a.tag # "none" => nr = 50000
          /\ fs = Environment(samples, nr, a)
    /\ pc = Program[1]
    /\ status = "running"
    /\ speedup_data = NoTable
    /\ stats_data = NoTable
    /\ stats_dict = <<>>
    /\ loaded = [m \in MetricNames |-> Unset]
    /\ stdout = <<>>
    /\ figure = [created |-> FALSE, panels |-> <<>>, texts |-> <<>>, tight |-> FALSE]
    /\ stats_text = <<>>
    /\ correlation = Unset
    /\ image = [writes |-> 0, panels |-> <<>>, texts |-> <<>>]
    /\ trace = <<>>

\* the statement at line l completed: control moves to the next statement
Advance(op, l) ==
    /\ pc' = Succ(l)
    /\ status' = IF Succ(l) = EndOfScript THEN "done" ELSE "running"
    /\ trace' = trace \o Events(op, l)

\* the statement raised: the interpreter prints a traceback and exits
Fail ==
    /\ status' = "failed"
    /\ UNCHANGED <<pc, trace>>

\* line 12: speedup_data = pd.read_csv('speedup_results.csv')
ReadResults ==
    /\ status = "running" /\ pc = 12
    /\ IF fs.results.exists
       THEN /\ speedup_data' = [cols |-> fs.results.cols, rows |-> fs.results.rows]
            /\ Advance("load", 12)
       ELSE /\ Fail
            /\ UNCHANGED speedup_data
    /\ UNCHANGED <<fs, stats_data, stats_dict, loaded, stdout, figure,
                   stats_text, correlation, image>>

\* line 13: stats_data = pd.read_csv('speedup_stats.csv')
ReadStats ==
    /\ status = "running" /\ pc = 13
    /\ IF fs.stats.exists
       THEN /\ stats_data' = [cols |-> fs.stats.cols, rows |-> fs.stats.rows]
            /\ Advance("load", 13)
       ELSE /\ Fail
            /\ UNCHANGED stats_data
    /\ UNCHANGED <<fs, speedup_data, stats_dict, loaded, stdout, figure,
                   stats_text, correlation, image>>

\* dict(zip(keys, values)): the last pair of a key wins
DictZip(keys, values) ==
    [k \in {keys[i] : i \in DOMAIN keys} |->
        values[CHOOSE i \in DOMAIN keys :
                  keys[i] = k /\ \A j \in DOMAIN keys : keys[j] = k => j <= i]]

\* line 16: stats_dict = dict(zip(stats_data['metric'], stats_data['value']))
BuildStatsDict ==
    /\ status = "running" /\ pc = 16
    /\ LET keys == Column(stats_data, "metric")
           values == Column(stats_data, "value")
       IN IF keys.ok /\ values.ok
          THEN /\ stats_dict' = DictZip(keys.xs, values.xs)
               /\ Advance("extract", 16)
          ELSE /\ Fail
               /\ UNCHANGED stats_dict
    /\ UNCHANGED <<fs, speedup_data, stats_data, loaded, stdout, figure,
                   stats_text, correlation, image>>

\* d[key], or KeyError
Lookup(d, key) == IF key \in DOMAIN d THEN d[key] ELSE Err

MetricAt(l) == MetricOrder[l - 16]

\* a variant of ExtractedValue that rejects a num_runs other than the row count
ExtractedValueValidated(l, raw) ==
    IF l # 23 THEN raw
    ELSE IF PyInt(raw) # Num(Len(speedup_data.rows)) THEN Err
    ELSE PyInt(raw)

\* the right-hand side of the assignment at line l: only num_runs is converted
ExtractedValue(l, raw) == IF l = 23 THEN PyInt(raw) ELSE raw

\* lines 17-23: avg_speedup = stats_dict['avg_speedup'] ... num_runs = int(...)
ExtractMetric ==
    /\ status = "running" /\ pc \in 17..23
    /\ LET m == MetricAt(pc)
           raw == Lookup(stats_dict, m)
           val == ExtractedValue(pc, raw)
       IN IF val.k = "err"
          THEN /\ Fail
               /\ UNCHANGED loaded
          ELSE /\ loaded' = [loaded EXCEPT ![m] = val]
               /\ Advance("extract", pc)
    /\ UNCHANGED <<fs, speedup_data, stats_data, stats_dict, stdout, figure,
                   stats_text, correlation, image>>

\* lines 25-33, 114, 118-127: print(f"...")
PrintReportLine ==
    /\ status = "running" /\ pc \in PrintLines
    /\ LET fields == PrintFields(pc)
       IN IF Raises(fields)
          THEN /\ Fail
               /\ UNCHANGED stdout
          ELSE /\ stdout' = Append(stdout, [src |-> pc, fields |-> fields])
               /\ Advance("print", pc)
    /\ UNCHANGED <<fs, speedup_data, stats_data, stats_dict, loaded, figure,
                   stats_text, correlation, image>>

\* a plotting call at line l raises: the backend fails or a column is missing
DrawRaises(l) ==
    \/ BackendRaises(fs, l)
    \/ ~(ColumnsDrawn(l) \subseteq speedup_data.cols)

\* lines 36-37: fig, axes = plt.subplots(2, 2, ...); fig.suptitle(...)
CreateFigure ==
    /\ status = "running" /\ pc = 36
    /\ IF DrawRaises(36)
       THEN /\ Fail
            /\ UNCHANGED figure
       ELSE /\ figure' = [figure EXCEPT !.created = TRUE]
            /\ Advance("draw", 36)
    /\ UNCHANGED <<fs, speedup_data, stats_data, stats_dict, loaded, stdout,
                   stats_text, correlation, image>>

\* lines 40-47, 50-57, 60-66, 69-75, 96-104: one panel's plot and decorations
DrawPanel ==
    /\ status = "running" /\ pc \in {40, 50, 60, 69, 96}
    /\ IF DrawRaises(pc)
       THEN /\ Fail
            /\ UNCHANGED figure
       ELSE /\ figure' = [figure EXCEPT
                            !.panels = Append(@, [src |-> pc, panel |-> PanelOf(pc)])]
            /\ Advance("draw", pc)
    /\ UNCHANGED <<fs, speedup_data, stats_data, stats_dict, loaded, stdout,
                   stats_text, correlation, image>>

\* lines 78-90: stats_text = f"..."
BuildStatsText ==
    /\ status = "running" /\ pc = 78
    /\ IF Raises(StatsTextFields)
       THEN /\ Fail
            /\ UNCHANGED stats_text
       ELSE /\ stats_text' = StatsTextFields
            /\ Advance("compute", 78)
    /\ UNCHANGED <<fs, speedup_data, stats_data, stats_dict, loaded, stdout,
                   figure, correlation, image>>

\* line 107: correlation = speedup_data['speedup'].corr(...)
ComputeCorrelation ==
    /\ status = "running" /\ pc = 107
    /\ IF ~(Speedup.ok /\ RelError.ok)
       THEN /\ Fail
            /\ UNCHANGED correlation
       ELSE /\ correlation' = SeriesCorr(Speedup.xs, RelError.xs)
            /\ Advance("compute", 107)
    /\ UNCHANGED <<fs, speedup_data, stats_data, stats_dict, loaded, stdout,
                   figure, stats_text, image>>

\* lines 92-93 and 108-110: ax.text(...) places an annotation box
Annotate ==
    /\ status = "running" /\ pc \in {92, 108}
    /\ LET fields == IF pc = 92 THEN stats_text ELSE ScatterTextFields
       IN IF DrawRaises(pc) \/ Raises(fields)
          THEN /\ Fail
               /\ UNCHANGED figure
          ELSE /\ figure' = [figure EXCEPT
                               !.texts = Append(@, [src |-> pc, fields |-> fields])]
               /\ Advance("draw", pc)
    /\ UNCHANGED <<fs, speedup_data, stats_data, stats_dict, loaded, stdout,
                   stats_text, correlation, image>>

\* line 112: plt.tight_layout()
TightLayout ==
    /\ status = "running" /\ pc = 112
    /\ IF DrawRaises(112)
       THEN /\ Fail
            /\ UNCHANGED figure
       ELSE /\ figure' = [figure EXCEPT !.tight = TRUE]
            /\ Advance("draw", 112)
    /\ UNCHANGED <<fs, speedup_data, stats_data, stats_dict, loaded, stdout,
                   stats_text, correlation, image>>

\* line 113: plt.savefig('speedup_analysis.png', ...)
SaveFigure ==
    /\ status = "running" /\ pc = 113
    /\ IF DrawRaises(113)
       THEN /\ Fail
            /\ UNCHANGED image
       ELSE /\ image' = [writes |-> image.writes + 1,
                         panels |-> figure.panels,
                         texts |-> figure.texts]
            /\ Advance("save", 113)
    /\ UNCHANGED <<fs, speedup_data, stats_data, stats_dict, loaded, stdout,
                   figure, stats_text, correlation>>

Next ==
    \/ ReadResults
    \/ ReadStats
    \/ BuildStatsDict
    \/ ExtractMetric
    \/ PrintReportLine
    \/ CreateFigure
    \/ DrawPanel
    \/ BuildStatsText
    \/ ComputeCorrelation
    \/ Annotate
    \/ TightLayout
    \/ SaveFigure

Spec == Init /\ [][Next]_vars

----------------------------------------------------------------------------
(* Properties *)

Printed(l) == \E i \in DOMAIN stdout : stdout[i].src = l

RECURSIVE Flatten(_)
Flatten(lines) ==
    IF lines = <<>> THEN <<>> ELSE Head(lines).fields \o Flatten(Tail(lines))

\* every field printed so far, in the order printed
PrintedFields == Flatten(stdout)

\* the number of Run Records in the results file
N == Len(fs.results.rows)

\* the raw speedups of the results file
FileSpeedups == [i \in DOMAIN fs.results.rows |-> fs.results.rows[i].speedup]

\* the value of num_runs in the stats file (fixed point), when there is one
FileNumRuns ==
    LET i == CHOOSE j \in DOMAIN fs.stats.rows : fs.stats.rows[j].metric = "num_runs"
    IN fs.stats.rows[i].value.v

ScenarioAsStated ==
    fs = Environment(ScenarioSamples, 50000, Anomaly("speedup_metrics_only", "", 0))

ScenarioComplete ==
    fs = Environment(ScenarioSamples, 50000, Anomaly("none", "", 0))

AllPanels == {"time_series", "histogram", "box_plot", "scatter"}

\* the saved image shows the four panels and both annotation boxes
ImageComplete ==
    /\ image.writes = 1
    /\ {image.panels[i].panel : i \in DOMAIN image.panels} = AllPanels
    /\ {image.texts[i].src : i \in DOMAIN image.texts} = {92, 108}

\* an input file is missing, or lacks an expected column or metric row
InputDefect ==
    \/ ~fs.results.exists
    \/ ~fs.stats.exists
    \/ fs.results.cols # ResultColumns
    \/ fs.stats.cols # StatsColumns
    \/ {fs.stats.rows[i].metric : i \in DOMAIN fs.stats.rows} # MetricNames

\* C1: when an input file is missing or lacks an expected column or metric
\* row, the run fails with no report line printed and no image written.
C1_NoPartialReport ==
    (InputDefect /\ status # "running") =>
        (status = "failed" /\ stdout = <<>> /\ image.writes = 0)

\* C2 as stated: with the five scenario rows and a stats file holding exactly
\* avg_speedup, min_speedup, max_speedup and num_runs, the run does not fail
\* and, once past line 113, has written the image.
C2_ScenarioAsStated ==
    ScenarioAsStated => (status # "failed" /\ (pc > 113 => image.writes = 1))

\* C2 amended: with the scenario rows and a stats file that also holds
\* avg_error, min_error and max_error the run never fails and, once past
\* line 113, has written the complete image exactly once; with exactly the four
\* stated metrics it stops at line 20 with nothing printed and no image.
C2_ScenarioWithErrorMetrics ==
    /\ ScenarioComplete =>
          /\ status # "failed"
          /\ pc > 113 => ImageComplete
          /\ status = "done" => Len(stdout) = 20
    /\ ScenarioAsStated =>
          /\ pc <= 20 /\ stdout = <<>> /\ image.writes = 0
          /\ status # "done"

C2_Witness == ScenarioComplete /\ status = "done" /\ ImageComplete

\* C3 as stated: no loaded summary value is printed after a derived statistic.
C3_LoadedBeforeDerived ==
    LET pf == PrintedFields
    IN \A i, j \in DOMAIN pf :
          (i < j /\ pf[i].origin = "derived") => pf[j].origin # "loaded"

\* the order of the print statements in the source
ReportOrder == <<25, 26, 27, 28, 29, 30, 31, 32, 33,
                 114, 118, 119, 120, 121, 122, 123, 124, 125, 126, 127>>

\* C3 amended: the report is printed in the fixed order of the print
\* statements; the run count and avg/min/max speedup precede every derived
\* statistic; the only loaded values printed after a derived one are
\* avg/min/max error, which follow the speedup standard deviation alone, and
\* the run count repeated as the denominator of the two threshold lines.
C3_FixedOrderInterleaved ==
    LET pf == PrintedFields
    IN /\ Len(stdout) <= Len(ReportOrder)
       /\ \A i \in DOMAIN stdout : stdout[i].src = ReportOrder[i]
       /\ \A j \in DOMAIN pf : \A i \in 1..(j - 1) :
             (pf[i].origin = "derived" /\ pf[j].origin = "loaded")
             => \/ /\ pf[j].name \in {"avg_error", "min_error", "max_error"}
                   /\ pf[i].name = "std_speedup"
                \/ /\ pf[j].name = "num_runs"
                   /\ pf[j - 1].name = "count_above"
       /\ \A j \in DOMAIN pf :
             pf[j].name \in {"avg_speedup", "min_speedup", "max_speedup"}
             => \A i \in 1..j : pf[i].origin = "loaded"

C3_Witness ==
    /\ status = "done" /\ Len(stdout) = 20
    /\ LET pf == PrintedFields
       IN \E i, j \in DOMAIN pf :
             i < j /\ pf[i].name = "std_speedup" /\ pf[j].name = "avg_error"

PhaseRank(op) ==
    CASE op \in {"load", "extract"} -> 1
      [] op = "compute" -> 2
      [] op = "print" -> 3
      [] op = "draw" -> 4
      [] op = "save" -> 5

\* C4 as stated: the phases load, compute, print, plot, save never go
\* backwards: nothing is computed after printing starts, nothing is computed
\* or printed after drawing starts or after the image is saved.
C4_FivePhasesInOrder ==
    \A j \in DOMAIN trace : \A i \in 1..(j - 1) :
        PhaseRank(trace[i].op) <= PhaseRank(trace[j].op)

\* C4 amended: statements run one after another in source order with no
\* branch or loop: load, extract, first report block (lines 25-33, statistics
\* computed inline), plot, save, then "Plot saved" and the remaining report
\* (lines 114-127, statistics computed inline).  The nine lines of the first
\* block are printed before anything is drawn, all drawing precedes the save,
\* and the last eleven lines are computed and printed only after the save.
C4_SourceOrder ==
    /\ \A j \in DOMAIN trace : \A i \in 1..(j - 1) :
          /\ trace[i].line <= trace[j].line
          /\ trace[i].op = "draw" =>
                ~(trace[j].op = "print" /\ trace[j].line <= 33)
          /\ trace[i].op = "save" => trace[j].op # "draw"
          /\ (trace[i].op \in {"print", "compute"} /\ trace[i].line >= 114)
                => trace[j].op # "save"
    /\ \A i \in DOMAIN trace : trace[i].line < pc
    /\ (\E i \in DOMAIN trace : trace[i].op = "draw") =>
          {stdout[i].src : i \in DOMAIN stdout} = 25..33
          \/ (\E i \in DOMAIN trace : trace[i].op = "save")
    /\ (\E i \in DOMAIN stdout : stdout[i].src >= 114) =>
          (\E i \in DOMAIN trace : trace[i].op = "save")

C4_Witness ==
    /\ status = "done"
    /\ \E i, j, k \in DOMAIN trace :
          /\ i < j /\ j < k
          /\ trace[i].op = "draw" /\ trace[j].op = "save"
          /\ trace[k].op = "compute" /\ trace[k].line = 119

ShownRunCounts ==
    (LET pf == PrintedFields
     IN {pf[i].val : i \in {j \in DOMAIN pf : pf[j].name = "num_runs"}})
    \cup UNION { {figure.texts[t].fields[i].val :
                     i \in {j \in DOMAIN figure.texts[t].fields :
                               figure.texts[t].fields[j].name = "num_runs"}} :
                 t \in DOMAIN figure.texts }

\* C6: with sound inputs the run never fails, whether or not num_runs equals
\* the number of Run Records, and every run count shown is the loaded
\* num_runs (so it equals N exactly when num_runs does).
C6_NoCrossValidation ==
    Healthy(fs) =>
        /\ status # "failed"
        /\ \A c \in ShownRunCounts :
              /\ c = Num(FileNumRuns \div 10000)
              /\ (c.v = N) <=> (FileNumRuns = N * 10000)
        /\ Printed(25) => ShownRunCounts # {}

C6_Witness ==
    /\ Healthy(fs) /\ status = "done"
    /\ FileNumRuns # N * 10000
    /\ Printed(122) /\ Printed(123)
    /\ Cardinality(ShownRunCounts) = 1

ThresholdLines == {i \in DOMAIN stdout : stdout[i].src \in {122, 123}}

\* C7 as stated: on each threshold line count / N equals percentage / 100
\* (the percentage is held in tenths of a percent).
C7_ExactlyConsistent ==
    \A i \in ThresholdLines :
        stdout[i].fields[1].val.v * 1000 = stdout[i].fields[3].val.v * N

\* C7 amended: on each threshold line the printed percentage is 100 * count / N
\* rounded to one decimal place: it differs from 100 * count / N by at most
\* 0.05, and is exact when 1000 * count is a multiple of N.
C7_ConsistentToOneDecimal ==
    \A i \in ThresholdLines :
        LET count == stdout[i].fields[1].val.v
            tenths == stdout[i].fields[3].val.v
        IN /\ stdout[i].fields[3].val.k = "num"
           /\ 2 * Abs(tenths * N - 1000 * count) <= N
           /\ (1000 * count) % N = 0 => tenths * N = 1000 * count

C7_Witness ==
    /\ N = 3
    /\ \E i \in ThresholdLines :
          stdout[i].fields[1].val.v = 2 /\ stdout[i].fields[3].val.v = 667

ThresholdAt(l) == IF l = 122 THEN 10000 ELSE 15000

\* C8: each threshold count is the number of records whose speedup is strictly
\* greater than the threshold; the printed median has at most half of the
\* speedups below it and at most half above it, is the middle sorted value
\* for odd N and the midpoint of the two middle values for even N; the
\* scenario prints median 1.1000 and 3/5 (60.0%).
C8_ReferenceStatistics ==
    /\ \A i \in ThresholdLines :
          stdout[i].fields[1].val =
              Num(Cardinality({r \in DOMAIN FileSpeedups :
                                  FileSpeedups[r] > ThresholdAt(stdout[i].src)}))
    /\ \A i \in DOMAIN stdout :
          stdout[i].src = 119 =>
              LET m == stdout[i].fields[1].val.v
                  below == Cardinality({r \in DOMAIN FileSpeedups : FileSpeedups[r] < m})
                  above == Cardinality({r \in DOMAIN FileSpeedups : FileSpeedups[r] > m})
                  lows == {x \in {FileSpeedups[r] : r \in DOMAIN FileSpeedups} : x <= m}
                  highs == {x \in {FileSpeedups[r] : r \in DOMAIN FileSpeedups} : x >= m}
                  lo == CHOOSE x \in lows : \A y \in lows : y <= x
                  hi == CHOOSE x \in highs : \A y \in highs : x <= y
              IN /\ 2 * below <= N /\ 2 * above <= N
                 /\ lows # {} /\ highs # {}
                 /\ 2 * m = lo + hi
                 /\ N % 2 = 1 => (lo = m /\ hi = m)
    /\ (ScenarioComplete /\ status = "done") =>
          /\ stdout[12] = [src |-> 119, fields |->
                <<Field("median_speedup", "derived", Num(11000))>>]
          /\ stdout[15] = [src |-> 122, fields |->
                <<Field("count_above", "derived", Num(3)),
                  Field("num_runs", "loaded", Num(5)),
                  Field("percent_above", "derived", Num(600))>>]

C8_Witness ==
    /\ ScenarioComplete /\ status = "done"
    /\ Printed(119) /\ Printed(122)

StdFields(fields) ==
    {fields[i].val : i \in {j \in DOMAIN fields :
                               fields[j].name \in {"std_speedup", "std_error"}}}

\* C9: with a single Run Record and sound inputs the run never fails; every
\* standard deviation printed or placed in the annotation is NaN, the
\* correlation is NaN, and a completed run has printed all twenty lines and
\* written the complete image.
C9_SingleRecord ==
    (N = 1 /\ Healthy(fs)) =>
        /\ status # "failed"
        /\ StdFields(PrintedFields) \subseteq {NaN}
        /\ StdFields(stats_text) \subseteq {NaN}
        /\ correlation \in {Unset, NaN}
        /\ pc > 33 => StdFields(PrintedFields) = {NaN}
        /\ status = "done" => (Len(stdout) = 20 /\ ImageComplete)

C9_Witness ==
    /\ N = 1 /\ Healthy(fs) /\ status = "done"
    /\ StdFields(PrintedFields) = {NaN} /\ StdFields(stats_text) = {NaN}
    /\ ImageComplete

\* C10: "Plot saved" and every later report line are printed only after the
\* image write has completed; when a plotting call or the image write fails,
\* none of them is printed.
C10_SavedOnlyAfterWrite ==
    /\ \A i \in DOMAIN stdout :
          stdout[i].src >= 114 =>
              /\ image.writes = 1
              /\ \E j \in DOMAIN trace : trace[j].op = "save"
    /\ (status = "failed" /\ pc \in 36..113) =>
          /\ image.writes = 0
          /\ \A i \in DOMAIN stdout : stdout[i].src < 114
    /\ fs.backend_fail # 0 => ~Printed(114)

C10_Witness ==
    /\ status = "failed" /\ pc = 113 /\ fs.backend_fail = 113
    /\ Len(stdout) = 9 /\ image.writes = 0

====
